---- MODULE Spec2Model ----
(***************************************************************************)
(* Heap snapshot persistence of Espruino (src/src/jswrap_flash.c):         *)
(* the run-length codec rle_encode / rle_decode, the flash build of        *)
(* jsfSaveToFlash / jsfLoadFromFlash / jsfFlashContainsCode and the flash  *)
(* medium they drive (pages, erase, AND-programming of words).             *)
(*                                                                         *)
(* Numbers of the C code are uint32_t.  Addresses of the model are small   *)
(* naturals; a 32-bit word held in flash is the tuple of its four bytes,   *)
(* least significant first (the image a little-endian core stores).        *)
(***************************************************************************)
EXTENDS Naturals, Integers, Sequences, FiniteSets

\* ------------------------------------------------------------------ bounds
\* dataSize = jsvGetMemoryTotal() * sizeof(JsVar), in bytes
HeapLen == 6
\* words of the saved-code region between the header word and the magic word
PayloadWords == 2

\* ---------------------------------------------------------------- constants
\* cnt<255 in rle_encode: the largest repeat count one count byte carries
MaxCount == 255
\* value every byte of an erased page reads as
ErasedByte == 255

\* platform header values (not in src/): start of the saved-code region
FLASH_SAVED_CODE_START == 0
FLASH_MAGIC_LOCATION == FLASH_SAVED_CODE_START + 4 + 4 * PayloadWords
\* 0xDEADBEEF as stored bytes, least significant first
FLASH_MAGIC == <<239, 190, 173, 222>>
\* the modelled medium: the region, the magic word and one word above it
MemSize == FLASH_MAGIC_LOCATION + 8

Byte == 0..255
ErasedWord == <<ErasedByte, ErasedByte, ErasedByte, ErasedByte>>
\* byte values the heap is filled with
HeapBytes == {0, ErasedByte}
Heaps == [1..HeapLen -> HeapBytes]

\* ------------------------------------------------------------- arithmetic
RECURSIVE BitAnd(_, _)
BitAnd(a, b) ==
  IF a = 0 \/ b = 0 THEN 0
  ELSE (a % 2) * (b % 2) + 2 * BitAnd(a \div 2, b \div 2)

\* the four bytes of a uint32_t n < 2^31, least significant first
ToWord(n) == <<n % 256, (n \div 256) % 256, (n \div 65536) % 256, (n \div 16777216) % 256>>

\* uint32_t comparison n >= w, n an address of the model (n < 2^31)
AddrGE(n, w) ==
  /\ w[4] < 128
  /\ n >= w[1] + 256 * w[2] + 65536 * w[3] + 16777216 * w[4]

Rep(ch, n) == [i \in 1..n |-> ch]

\* ------------------------------------------------------------------- state
VARIABLES
  pages,        \* page layout of the medium: the set of page start addresses
  flash,        \* the medium, byte by byte
  bad,          \* worn words of the medium, each with the way it fails
  heap,         \* the JsVar heap as bytes, _jsvGetAddressOf(1) onwards
  pc,           \* where the running save or load stands, "idle" between them
  pageStart,    \* locals of jsfSaveToFlash
  pageLength,
  cbData,       \* uint32_t cbData[3] of jsfSaveToFlash
  endOfData,
  dataPos,      \* bytes rle_encode has consumed (data - basePtr)
  lastCh,       \* lastCh of rle_encode / rle_decode
  cbLoad,       \* uint32_t cbData[2] of jsfLoadFromFlash
  outPos,       \* bytes rle_decode has written (data - basePtr)
  report,       \* what the last operation printed on the console
  call,         \* arguments and free stack of the last Flash.write
  file,         \* file build: espruino.state, whether it exists and its bytes
  fileOK,       \* file build: whether fopen succeeds in the current directory
  memTotal,     \* jsvGetMemoryTotal(): the number of JsVars of the heap
  snapshot,     \* history: heap of the last save that ran its check pass
  saveErrors,   \* history: errors that save counted, -1 before it has
  markerBefore, \* history: the magic word when the running save started
  reads,        \* history: flash addresses the last load read
  eraseLog,     \* history: pages the running save has erased, in order
  pushed,       \* history: bytes the running save handed to its write callback
  writeLog,     \* history: jshFlashWrite calls of the running operation
  stream,       \* codec run: the bytes the encoder's callback received
  pullPos,      \* codec run: bytes the decoder's callback has handed out
  decoded       \* codec run: the bytes rle_decode wrote

vars == <<pages, flash, bad, heap, pc, pageStart, pageLength, cbData, endOfData,
          dataPos, lastCh, cbLoad, outPos, report, call, file, fileOK, memTotal,
          snapshot, saveErrors,
          markerBefore, reads, eraseLog, pushed, writeLog, stream, pullPos, decoded>>

\* ------------------------------------------------------------ flash driver
\* page layouts: every partition of the saved-code region, magic word
\* included, into pages of whole words; the word above it is another page
PageLayouts ==
  {S \cup {FLASH_SAVED_CODE_START, FLASH_MAGIC_LOCATION + 4} :
     S \in SUBSET {FLASH_SAVED_CODE_START + 4 * w : w \in 1..(PayloadWords + 1)}}

\* jshFlashGetPage: the page holding addr, or ok = FALSE outside the medium
jshFlashGetPage(pg, addr) ==
  IF addr >= MemSize THEN [ok |-> FALSE, start |-> 0, length |-> 0]
  ELSE LET s == CHOOSE x \in pg : x <= addr /\ \A y \in pg : y <= addr => y <= x
           later == {y \in pg : y > addr}
           e == IF later = {} THEN MemSize
                ELSE CHOOSE x \in later : \A y \in later : x <= y
       IN [ok |-> TRUE, start |-> s, length |-> e - s]

\* jshFlashErasePage: every byte of the page holding addr reads erased
jshFlashErasePage(f, pg, addr) ==
  LET p == jshFlashGetPage(pg, addr)
  IN IF ~p.ok THEN f
     ELSE [a \in DOMAIN f |->
             IF a >= p.start /\ a < p.start + p.length THEN ErasedByte ELSE f[a]]

\* jshFlashWrite of the bytes w: programming only turns 1 bits into 0 bits;
\* a worn word either does not take it ("deaf") or loses all its bits ("zero")
jshFlashWrite(f, w, addr) ==
  [a \in DOMAIN f |->
     IF a >= addr /\ a < addr + Len(w)
     THEN IF <<a - (a % 4), "deaf">> \in bad THEN f[a]
          ELSE IF <<a - (a % 4), "zero">> \in bad THEN 0
          ELSE BitAnd(f[a], w[a - addr + 1])
     ELSE f[a]]

\* jshFlashRead of one byte; outside the medium the bus returns no flash data
jshFlashRead(f, addr) == IF addr \in DOMAIN f THEN f[addr] ELSE ErasedByte

ReadWord(f, addr) == <<f[addr], f[addr + 1], f[addr + 2], f[addr + 3]>>

\* mutant: the magic word compared in the other byte order
jsfFlashContainsCode_swapped(f) ==
  ReadWord(f, FLASH_MAGIC_LOCATION) =
    <<FLASH_MAGIC[4], FLASH_MAGIC[3], FLASH_MAGIC[2], FLASH_MAGIC[1]>>

\* jsfFlashContainsCode, flash build
jsfFlashContainsCode(f) == ReadWord(f, FLASH_MAGIC_LOCATION) = FLASH_MAGIC

\* ------------------------------------------------------------------- codec
SetMin(S) == CHOOSE x \in S : \A y \in S : x <= y

\* the first of the bytes data[pos+1 .. pos+limit] that differs from ch ends
\* the scan; without one the scan runs to the limit
ScanTo(data, pos, ch, limit) ==
  LET differ == {k \in 1..limit : data[pos + k] # ch}
  IN IF differ = {} THEN limit ELSE SetMin(differ) - 1

\* mutant: the scan does not stop at 255 repeats
ScanRun_nolimit(data, pos, ch) == ScanTo(data, pos, ch, Len(data) - pos)

\* mutant: the scan stops one repeat early
ScanRun_short(data, pos, ch) ==
  ScanTo(data, pos, ch, IF Len(data) - pos < MaxCount - 1 THEN Len(data) - pos ELSE MaxCount - 1)

\* inner while of rle_encode, pos bytes consumed: cnt when the loop ends,
\* after at most 255 repeats of ch and at most the bytes that are left
ScanRun(data, pos, ch) ==
  ScanTo(data, pos, ch, IF Len(data) - pos < MaxCount THEN Len(data) - pos ELSE MaxCount)

\* mutant: lastCh compared as an unsigned char, so -1 matches 255
rle_encode_iter_bytecast(data, pos, last) ==
  LET ch == data[pos + 1]
      cnt == ScanRun(data, pos + 1, ch)
  IN IF ch = last % 256
     THEN [emit |-> <<ch, cnt % 256>>, pos |-> pos + 1 + cnt, lastCh |-> ch]
     ELSE [emit |-> <<ch>>, pos |-> pos + 1, lastCh |-> ch]

\* mutant: the count includes the byte that announced the run
rle_encode_iter_countself(data, pos, last) ==
  LET ch == data[pos + 1]
      cnt == ScanRun(data, pos + 1, ch)
  IN IF ch = last
     THEN [emit |-> <<ch, (cnt + 1) % 256>>, pos |-> pos + 1 + cnt, lastCh |-> ch]
     ELSE [emit |-> <<ch>>, pos |-> pos + 1, lastCh |-> ch]

\* one iteration of the outer while of rle_encode, pos bytes consumed so far:
\* the bytes handed to the callback, the new position, the new lastCh
rle_encode_iter(data, pos, last) ==
  LET ch == data[pos + 1]
      cnt == ScanRun(data, pos + 1, ch)
  IN IF ch = last
     THEN [emit |-> <<ch, cnt % 256>>, pos |-> pos + 1 + cnt, lastCh |-> ch]
     ELSE [emit |-> <<ch>>, pos |-> pos + 1, lastCh |-> ch]

\* one iteration of the loop of rle_decode after ch >= 0 was pulled; nxt is
\* what the callback returns when asked again (only asked when ch = lastCh)
rle_decode_iter(ch, nxt, last) ==
  IF ch = last
  THEN [out |-> <<ch>> \o Rep(ch, IF nxt > 0 THEN nxt ELSE 0), pulls |-> 2, lastCh |-> ch]
  ELSE [out |-> <<ch>>, pulls |-> 1, lastCh |-> ch]

RECURSIVE rle_encode_from(_, _, _)
rle_encode_from(data, pos, last) ==
  IF pos >= Len(data) THEN <<>>
  ELSE LET it == rle_encode_iter(data, pos, last)
       IN it.emit \o rle_encode_from(data, it.pos, it.lastCh)

\* every byte rle_encode hands to its callback for data, in order
rle_encode(data) == rle_encode_from(data, 0, -1)

\* --------------------------------------------------------- save callbacks
\* mutant: the word is filled from the low byte up, newest byte lowest
jsfSaveToFlash_writecb_lowfirst(ch, st) ==
  LET cb == st.cb
      fits == cb.c1 < cb.c0
      word == IF fits THEN <<ch, cb.c2[1], cb.c2[2], cb.c2[3]>> ELSE cb.c2
      wr == fits /\ cb.c1 % 4 = 3
  IN [cb |-> [cb EXCEPT !.c2 = word, !.c1 = cb.c1 + 1],
      flash |-> IF wr THEN jshFlashWrite(st.flash, word, cb.c1 - 3) ELSE st.flash,
      log |-> IF wr THEN Append(st.log, [addr |-> cb.c1 - 3, data |-> word]) ELSE st.log]

\* mutant: the callback writes without looking at the end address
jsfSaveToFlash_writecb_noguard(ch, st) ==
  LET cb == st.cb
      word == <<cb.c2[2], cb.c2[3], cb.c2[4], ch>>
      wr == cb.c1 % 4 = 3
  IN [cb |-> [cb EXCEPT !.c2 = word, !.c1 = cb.c1 + 1],
      flash |-> IF wr THEN jshFlashWrite(st.flash, word, cb.c1 - 3) ELSE st.flash,
      log |-> IF wr THEN Append(st.log, [addr |-> cb.c1 - 3, data |-> word]) ELSE st.log]

\* mutant: the callback goes on for one word past the end address
jsfSaveToFlash_writecb_pastend(ch, st) ==
  LET cb == st.cb
      fits == cb.c1 < cb.c0 + 4
      word == IF fits THEN <<cb.c2[2], cb.c2[3], cb.c2[4], ch>> ELSE cb.c2
      wr == fits /\ cb.c1 % 4 = 3
  IN [cb |-> [cb EXCEPT !.c2 = word, !.c1 = cb.c1 + 1],
      flash |-> IF wr THEN jshFlashWrite(st.flash, word, cb.c1 - 3) ELSE st.flash,
      log |-> IF wr THEN Append(st.log, [addr |-> cb.c1 - 3, data |-> word]) ELSE st.log]

\* jsfSaveToFlash_writecb; cb = [c0 = end address, c1 = address, c2 = word];
\* log gets the jshFlashWrite call when there is one
jsfSaveToFlash_writecb(ch, st) ==
  LET cb == st.cb
      fits == cb.c1 < cb.c0
      word == IF fits THEN <<cb.c2[2], cb.c2[3], cb.c2[4], ch>> ELSE cb.c2
      wr == fits /\ cb.c1 % 4 = 3
  IN [cb |-> [cb EXCEPT !.c2 = word, !.c1 = cb.c1 + 1],
      flash |-> IF wr THEN jshFlashWrite(st.flash, word, cb.c1 - 3) ELSE st.flash,
      log |-> IF wr THEN Append(st.log, [addr |-> cb.c1 - 3, data |-> word]) ELSE st.log]

\* jsfSaveToFlash_checkcb; cb = [c0 = address, c1 = error count]
jsfSaveToFlash_checkcb(ch, st) ==
  LET cb == st.cb
      data == jshFlashRead(st.flash, cb.c0)
  IN [cb |-> [cb EXCEPT !.c0 = cb.c0 + 1,
                        !.c1 = IF data # ch THEN cb.c1 + 1 ELSE cb.c1],
      flash |-> st.flash]

\* the callback called with the bytes of one encoder iteration, in order
RECURSIVE WriteAll(_, _)
WriteAll(bytes, st) ==
  IF bytes = <<>> THEN st
  ELSE WriteAll(Tail(bytes), jsfSaveToFlash_writecb(Head(bytes), st))

RECURSIVE CheckAll(_, _)
CheckAll(bytes, st) ==
  IF bytes = <<>> THEN st
  ELSE CheckAll(Tail(bytes), jsfSaveToFlash_checkcb(Head(bytes), st))

\* jsfLoadFromFlash_readcb; cb = [c0 = end address (a word), c1 = address]
jsfLoadFromFlash_readcb(cb, f) ==
  IF AddrGE(cb.c1, cb.c0) THEN [ret |-> -1, cb |-> cb]
  ELSE [ret |-> jshFlashRead(f, cb.c1), cb |-> [cb EXCEPT !.c1 = cb.c1 + 1]]

rleStart == FLASH_SAVED_CODE_START + 4
MagicAddrs == {FLASH_MAGIC_LOCATION + i : i \in 0..3}
NoSnapshot == <<>>
NoCall == [addr |-> 0, l |-> 0, free |-> 0]
NoFile == [exists |-> FALSE, bytes |-> <<>>]

saveLocals == <<pageStart, pageLength, cbData, endOfData, dataPos>>
loadLocals == <<cbLoad, outPos, reads>>
history == <<snapshot, saveErrors, markerBefore>>
saveLog == <<eraseLog, pushed, writeLog>>
fileBuild == <<file, fileOK, memTotal>>
env == <<bad, call, fileBuild>>
codec == <<stream, pullPos, decoded>>

\* the medium erased, no operation running, no operation run yet
Boot ==
  /\ flash = [a \in 0..(MemSize - 1) |-> ErasedByte]
  /\ pc = "idle"
  /\ pageStart = 0
  /\ pageLength = 0
  /\ cbData = [c0 |-> 0, c1 |-> 0, c2 |-> ToWord(0)]
  /\ endOfData = 0
  /\ dataPos = 0
  /\ lastCh = -1
  /\ cbLoad = [c0 |-> ToWord(0), c1 |-> 0]
  /\ outPos = 0
  /\ report = "none"
  /\ call = NoCall
  /\ snapshot = NoSnapshot
  /\ saveErrors = -1
  /\ markerBefore = ErasedWord
  /\ reads = {}
  /\ eraseLog = <<>>
  /\ pushed = <<>>
  /\ writeLog = <<>>
  /\ stream = <<>>
  /\ pullPos = 0
  /\ decoded = <<>>

\* the flash build: no state file, the heap taken as one JsVar of HeapLen bytes
FlashBuild ==
  /\ file = NoFile
  /\ fileOK = TRUE
  /\ memTotal = 1

Init ==
  /\ pages \in PageLayouts
  /\ bad = {}
  /\ heap \in Heaps
  /\ FlashBuild
  /\ Boot

\* the locals of jsfSaveToFlash and rle_encode end with the call
SaveReturn ==
  /\ pageStart' = 0
  /\ pageLength' = 0
  /\ cbData' = [c0 |-> 0, c1 |-> 0, c2 |-> ToWord(0)]
  /\ endOfData' = 0
  /\ dataPos' = 0
  /\ lastCh' = -1
  /\ eraseLog' = <<>>
  /\ pushed' = <<>>
  /\ writeLog' = <<>>

\* cbData as set up for the write pass
WriteInit == [c0 |-> FLASH_MAGIC_LOCATION, c1 |-> rleStart, c2 |-> ToWord(0)]

\* ------------------------------------------------------------ jsfSaveToFlash
\* entry and the erase of the first page
SaveStart ==
  /\ pc = "idle"
  /\ LET p == jshFlashGetPage(pages, FLASH_SAVED_CODE_START)
     IN IF p.ok
        THEN /\ flash' = jshFlashErasePage(flash, pages, p.start)
             /\ pageStart' = p.start
             /\ pageLength' = p.length
             /\ eraseLog' = <<p.start>>
             /\ pc' = "erase"
             /\ UNCHANGED <<cbData, dataPos, lastCh>>
        ELSE /\ cbData' = WriteInit
             /\ dataPos' = 0
             /\ lastCh' = -1
             /\ eraseLog' = <<>>
             /\ pc' = "write"
             /\ UNCHANGED <<flash, pageStart, pageLength>>
  /\ pushed' = <<>>
  /\ writeLog' = <<>>
  /\ report' = "none"
  /\ snapshot' = NoSnapshot
  /\ saveErrors' = -1
  /\ markerBefore' = ReadWord(flash, FLASH_MAGIC_LOCATION)
  /\ UNCHANGED <<env, codec, pages, heap, endOfData, loadLocals>>

\* mutant: the loop goes on while the page ends at FLASH_MAGIC_LOCATION too
SaveEraseNext_inclusive ==
  /\ pc = "erase"
  /\ pageStart + pageLength <= FLASH_MAGIC_LOCATION
  /\ LET p == jshFlashGetPage(pages, pageStart + pageLength)
     IN /\ flash' = jshFlashErasePage(flash, pages, p.start)
        /\ pageStart' = p.start
        /\ pageLength' = p.length
        /\ eraseLog' = Append(eraseLog, p.start)
  /\ UNCHANGED <<env, codec, pages, heap, pc, cbData, dataPos, lastCh, endOfData,
                 loadLocals, report, history, pushed, writeLog>>

\* one turn of the while loop that erases the following pages
SaveEraseNext ==
  /\ pc = "erase"
  /\ pageStart + pageLength < FLASH_MAGIC_LOCATION
  /\ LET p == jshFlashGetPage(pages, pageStart + pageLength)
     IN IF p.ok
        THEN /\ flash' = jshFlashErasePage(flash, pages, p.start)
             /\ pageStart' = p.start
             /\ pageLength' = p.length
             /\ eraseLog' = Append(eraseLog, p.start)
             /\ UNCHANGED <<pc, cbData, dataPos, lastCh>>
        ELSE /\ cbData' = WriteInit
             /\ dataPos' = 0
             /\ lastCh' = -1
             /\ pc' = "write"
             /\ UNCHANGED <<flash, pageStart, pageLength, eraseLog>>
  /\ UNCHANGED <<env, codec, pages, heap, endOfData, loadLocals, report, history,
                 pushed, writeLog>>

\* the loop condition fails: set up cbData for the write pass
SaveEraseDone ==
  /\ pc = "erase"
  /\ ~(pageStart + pageLength < FLASH_MAGIC_LOCATION)
  /\ cbData' = WriteInit
  /\ dataPos' = 0
  /\ lastCh' = -1
  /\ pc' = "write"
  /\ UNCHANGED <<env, codec, pages, flash, heap, pageStart, pageLength, endOfData,
                 loadLocals, report, history, saveLog>>

\* one iteration of rle_encode with jsfSaveToFlash_writecb
SaveWriteStep ==
  /\ pc = "write"
  /\ dataPos < Len(heap)
  /\ LET it == rle_encode_iter(heap, dataPos, lastCh)
         st == WriteAll(it.emit, [cb |-> cbData, flash |-> flash, log |-> writeLog])
     IN /\ cbData' = st.cb
        /\ flash' = st.flash
        /\ writeLog' = st.log
        /\ pushed' = pushed \o it.emit
        /\ dataPos' = it.pos
        /\ lastCh' = it.lastCh
  /\ UNCHANGED <<env, codec, pages, heap, pc, pageStart, pageLength, endOfData,
                 loadLocals, report, history, eraseLog>>

\* mutant: the word in the buffer is not pushed out
SaveFlush_noflush ==
  /\ pc = "write"
  /\ dataPos = Len(heap)
  /\ endOfData' = cbData.c1
  /\ pc' = "flushed"
  /\ UNCHANGED <<env, codec, pages, flash, heap, pageStart, pageLength, cbData, dataPos,
                 lastCh, loadLocals, report, history, saveLog>>

\* mutant: the end of data is noted after the three zero bytes
SaveFlush_endafter ==
  /\ pc = "write"
  /\ dataPos = Len(heap)
  /\ LET st == WriteAll(<<0, 0, 0>>, [cb |-> cbData, flash |-> flash, log |-> writeLog])
     IN /\ cbData' = st.cb
        /\ flash' = st.flash
        /\ writeLog' = st.log
        /\ endOfData' = st.cb.c1
  /\ pushed' = pushed \o <<0, 0, 0>>
  /\ pc' = "flushed"
  /\ UNCHANGED <<env, codec, pages, heap, pageStart, pageLength, dataPos, lastCh,
                 loadLocals, report, history, eraseLog>>

\* rle_encode returned: note endOfData, push three zero bytes
SaveFlush ==
  /\ pc = "write"
  /\ dataPos = Len(heap)
  /\ endOfData' = cbData.c1
  /\ LET st == WriteAll(<<0, 0, 0>>, [cb |-> cbData, flash |-> flash, log |-> writeLog])
     IN /\ cbData' = st.cb
        /\ flash' = st.flash
        /\ writeLog' = st.log
  /\ pushed' = pushed \o <<0, 0, 0>>
  /\ pc' = "flushed"
  /\ UNCHANGED <<env, codec, pages, heap, pageStart, pageLength, dataPos, lastCh,
                 loadLocals, report, history, eraseLog>>

\* mutant: the overflow branch writes the magic word all the same
SaveTooBig_writesMagic ==
  /\ pc = "flushed"
  /\ cbData.c1 >= cbData.c0
  /\ flash' = jshFlashWrite(flash, FLASH_MAGIC, FLASH_MAGIC_LOCATION)
  /\ report' = "toobig"
  /\ pc' = "idle"
  /\ SaveReturn
  /\ UNCHANGED <<env, codec, pages, heap, loadLocals, history>>

\* mutant: the overflow branch writes the header all the same
SaveTooBig_writesHeader ==
  /\ pc = "flushed"
  /\ cbData.c1 >= cbData.c0
  /\ flash' = jshFlashWrite(flash, ToWord(endOfData), FLASH_SAVED_CODE_START)
  /\ report' = "toobig"
  /\ pc' = "idle"
  /\ SaveReturn
  /\ UNCHANGED <<env, codec, pages, heap, loadLocals, history>>

\* the overflow branch
SaveTooBig ==
  /\ pc = "flushed"
  /\ cbData.c1 >= cbData.c0
  /\ report' = "toobig"
  /\ pc' = "idle"
  /\ SaveReturn
  /\ UNCHANGED <<env, codec, pages, flash, heap, loadLocals, history>>

\* mutant: the magic word is written together with the header
SaveWriteHeader_magicfirst ==
  /\ pc = "flushed"
  /\ ~(cbData.c1 >= cbData.c0)
  /\ flash' = jshFlashWrite(jshFlashWrite(flash, FLASH_MAGIC, FLASH_MAGIC_LOCATION),
                            ToWord(endOfData), FLASH_SAVED_CODE_START)
  /\ writeLog' = writeLog \o <<[addr |-> FLASH_MAGIC_LOCATION, data |-> FLASH_MAGIC],
                               [addr |-> FLASH_SAVED_CODE_START, data |-> ToWord(endOfData)]>>
  /\ pc' = "magic"
  /\ UNCHANGED <<env, codec, pages, heap, saveLocals, lastCh, loadLocals, report, history,
                 eraseLog, pushed>>

\* write endOfData to the start of the region
SaveWriteHeader ==
  /\ pc = "flushed"
  /\ ~(cbData.c1 >= cbData.c0)
  /\ flash' = jshFlashWrite(flash, ToWord(endOfData), FLASH_SAVED_CODE_START)
  /\ writeLog' = Append(writeLog, [addr |-> FLASH_SAVED_CODE_START, data |-> ToWord(endOfData)])
  /\ pc' = "magic"
  /\ UNCHANGED <<env, codec, pages, heap, saveLocals, lastCh, loadLocals, report, history,
                 eraseLog, pushed>>

\* write the magic word, set up cbData for the check pass
SaveWriteMagic ==
  /\ pc = "magic"
  /\ flash' = jshFlashWrite(flash, FLASH_MAGIC, FLASH_MAGIC_LOCATION)
  /\ writeLog' = Append(writeLog, [addr |-> FLASH_MAGIC_LOCATION, data |-> FLASH_MAGIC])
  /\ cbData' = [cbData EXCEPT !.c0 = rleStart, !.c1 = 0]
  /\ dataPos' = 0
  /\ lastCh' = -1
  /\ pc' = "check"
  /\ UNCHANGED <<env, codec, pages, heap, pageStart, pageLength, endOfData,
                 loadLocals, report, history, eraseLog, pushed>>

\* one iteration of rle_encode with jsfSaveToFlash_checkcb
SaveCheckStep ==
  /\ pc = "check"
  /\ dataPos < Len(heap)
  /\ LET it == rle_encode_iter(heap, dataPos, lastCh)
         st == CheckAll(it.emit, [cb |-> cbData, flash |-> flash])
     IN /\ cbData' = st.cb
        /\ dataPos' = it.pos
        /\ lastCh' = it.lastCh
  /\ UNCHANGED <<env, codec, pages, flash, heap, pc, pageStart, pageLength, endOfData,
                 loadLocals, report, history, saveLog>>

\* errors of the check pass, one more when the magic word reads back wrong
SaveErrors == cbData.c1 + (IF jsfFlashContainsCode(flash) THEN 0 ELSE 1)

SaveCheckDone ==
  /\ pc = "check"
  /\ dataPos = Len(heap)
  /\ report' = IF SaveErrors = 0 THEN "done" ELSE "errors"
  /\ snapshot' = heap
  /\ saveErrors' = SaveErrors
  /\ pc' = "idle"
  /\ SaveReturn
  /\ UNCHANGED <<env, codec, pages, flash, heap, loadLocals, markerBefore>>

\* ---------------------------------------------------------- jsfLoadFromFlash
\* the magic word is not there: "No code in flash!"
LoadNoCode ==
  /\ pc = "idle"
  /\ ~jsfFlashContainsCode(flash)
  /\ report' = "nocode"
  /\ reads' = MagicAddrs
  /\ UNCHANGED <<env, saveLog, codec, pages, flash, heap, pc, saveLocals, lastCh, cbLoad, outPos, history>>

\* mutant: the load does not look at the magic word
LoadStart_nocheck ==
  /\ pc = "idle"
  /\ cbLoad' = [c0 |-> ReadWord(flash, FLASH_SAVED_CODE_START), c1 |-> rleStart]
  /\ reads' = MagicAddrs \cup {FLASH_SAVED_CODE_START + i : i \in 0..3}
  /\ lastCh' = -256
  /\ outPos' = 0
  /\ report' = "none"
  /\ pc' = "load"
  /\ UNCHANGED <<env, saveLog, codec, pages, flash, heap, saveLocals, history>>

\* the magic word is there: read the end address, start rle_decode
LoadStart ==
  /\ pc = "idle"
  /\ jsfFlashContainsCode(flash)
  /\ cbLoad' = [c0 |-> ReadWord(flash, FLASH_SAVED_CODE_START), c1 |-> rleStart]
  /\ reads' = MagicAddrs \cup {FLASH_SAVED_CODE_START + i : i \in 0..3}
  /\ lastCh' = -256
  /\ outPos' = 0
  /\ report' = "none"
  /\ pc' = "load"
  /\ UNCHANGED <<env, saveLog, codec, pages, flash, heap, saveLocals, history>>

\* *(data++) = ch for every byte of out; bytes past the heap land outside it
Store(h, pos, out) ==
  [i \in DOMAIN h |->
     IF i > pos /\ i <= pos + Len(out) THEN out[i - pos] ELSE h[i]]

\* one iteration of the loop of rle_decode with jsfLoadFromFlash_readcb
LoadStep ==
  /\ pc = "load"
  /\ cbLoad.c1 < MemSize
  /\ LET r1 == jsfLoadFromFlash_readcb(cbLoad, flash)
         r2 == jsfLoadFromFlash_readcb(r1.cb, flash)
         it == rle_decode_iter(r1.ret, r2.ret, lastCh)
         cb == IF it.pulls = 2 THEN r2.cb ELSE r1.cb
     IN /\ r1.ret >= 0
        /\ heap' = Store(heap, outPos, it.out)
        /\ outPos' = outPos + Len(it.out)
        /\ lastCh' = it.lastCh
        /\ cbLoad' = cb
        /\ reads' = reads \cup {a \in cbLoad.c1..cb.c1 : a < cb.c1}
  /\ UNCHANGED <<env, saveLog, codec, pages, flash, pc, saveLocals, report, history>>

\* the callback returned -1: rle_decode and jsfLoadFromFlash return
LoadDone ==
  /\ pc = "load"
  /\ jsfLoadFromFlash_readcb(cbLoad, flash).ret < 0
  /\ report' = "loaded"
  /\ pc' = "idle"
  /\ lastCh' = -1
  /\ cbLoad' = [c0 |-> ToWord(0), c1 |-> 0]
  /\ UNCHANGED <<env, saveLog, codec, pages, flash, heap, saveLocals, outPos, reads, history>>

\* the read address left the medium before reaching the end address
LoadFault ==
  /\ pc = "load"
  /\ cbLoad.c1 >= MemSize
  /\ jsfLoadFromFlash_readcb(cbLoad, flash).ret >= 0
  /\ report' = "fault"
  /\ pc' = "idle"
  /\ lastCh' = -1
  /\ cbLoad' = [c0 |-> ToWord(0), c1 |-> 0]
  /\ UNCHANGED <<env, saveLog, codec, pages, flash, heap, saveLocals, outPos, reads, history>>

\* rle_decode has stored bytes past the end of the heap: what those stores hit
\* is not defined; the load may go on (LoadStep), or the core stops in its
\* fault handler and the call never returns
LoadOverrun ==
  /\ pc = "load"
  /\ outPos > Len(heap)
  /\ pc' = "halted"
  /\ UNCHANGED <<env, saveLog, codec, pages, flash, heap, saveLocals, lastCh, loadLocals,
                 report, history>>

\* ----------------------------------------------------- jswrap_flash_erasePage
\* addresses Flash.erasePage is called with
ErasePageArgs == {FLASH_MAGIC_LOCATION}

\* Flash.erasePage(addr) from the command line
jswrap_flash_erasePage ==
  /\ pc = "idle"
  /\ \E addr \in ErasePageArgs : flash' = jshFlashErasePage(flash, pages, addr)
  /\ report' = "erased"
  /\ outPos' = 0
  /\ reads' = {}
  /\ UNCHANGED <<env, saveLog, codec, pages, heap, pc, saveLocals, lastCh, cbLoad, history>>

\* --------------------------------------------------------- jswrap_flash_write
\* l+256 > jsuGetFreeStack(): the stack kept free beside the buffer
StackMargin == 256
\* longest data Flash.write is called with, in words
MaxWriteWords == 2
\* data of whole words and data that ends inside a word
WriteData ==
  {Rep(d, n) : d \in {0, 15}, n \in {4 * w : w \in 0..MaxWriteWords} \cup {3}}
\* word boundaries of the medium and an address inside a word
WriteAddrs == {FLASH_SAVED_CODE_START, FLASH_SAVED_CODE_START + 2, rleStart,
               FLASH_MAGIC_LOCATION + 4}
\* what jsuGetFreeStack() returns: room for one word, room for the longest data
FreeStacks == {StackMargin + 4, StackMargin + 4 * MaxWriteWords}

\* mutant: the data is copied to the stack without asking for the free stack
jswrap_flash_write_nostackcheck ==
  /\ pc = "idle"
  /\ \E addr \in WriteAddrs, data \in WriteData, free \in FreeStacks :
       LET l == Len(data)
       IN /\ call' = [addr |-> addr, l |-> l, free |-> free]
          /\ IF addr % 4 # 0 \/ l % 4 # 0
             THEN /\ report' = "badalign"
                  /\ writeLog' = <<>>
                  /\ UNCHANGED flash
             ELSE /\ flash' = jshFlashWrite(flash, data, addr)
                  /\ writeLog' = <<[addr |-> addr, data |-> data]>>
                  /\ report' = "written"
  /\ UNCHANGED <<bad, fileBuild, codec, pages, heap, pc, saveLocals, lastCh, loadLocals, history,
                 eraseLog, pushed>>

\* Flash.write(data, addr) from the command line
jswrap_flash_write ==
  /\ pc = "idle"
  /\ \E addr \in WriteAddrs, data \in WriteData, free \in FreeStacks :
       LET l == Len(data)
       IN /\ call' = [addr |-> addr, l |-> l, free |-> free]
          /\ IF addr % 4 # 0 \/ l % 4 # 0
             THEN /\ report' = "badalign"
                  /\ writeLog' = <<>>
                  /\ UNCHANGED flash
             ELSE IF l + StackMargin > free
             THEN /\ report' = "nostack"
                  /\ writeLog' = <<>>
                  /\ UNCHANGED flash
             ELSE /\ flash' = jshFlashWrite(flash, data, addr)
                  /\ writeLog' = <<[addr |-> addr, data |-> data]>>
                  /\ report' = "written"
  /\ UNCHANGED <<bad, fileBuild, codec, pages, heap, pc, saveLocals, lastCh, loadLocals, history,
                 eraseLog, pushed>>

\* -------------------------------------------------------------- environment
\* after a save the interpreter goes on and changes the heap; one change
\* stands for any number of evaluation steps before the next command
HeapMutate ==
  /\ pc = "idle"
  /\ report \in {"done", "errors", "toobig"}
  /\ \E h \in Heaps : h # heap /\ heap' = h
  /\ report' = "none"
  /\ outPos' = 0
  /\ reads' = {}
  /\ UNCHANGED <<env, saveLog, codec, pages, flash, pc, saveLocals, lastCh, cbLoad, history>>

Next ==
  \/ SaveStart
  \/ SaveEraseNext
  \/ SaveEraseDone
  \/ SaveWriteStep
  \/ SaveFlush
  \/ SaveTooBig
  \/ SaveWriteHeader
  \/ SaveWriteMagic
  \/ SaveCheckStep
  \/ SaveCheckDone
  \/ LoadNoCode
  \/ LoadStart
  \/ LoadStep
  \/ LoadDone
  \/ LoadFault
  \/ LoadOverrun
  \/ jswrap_flash_erasePage
  \/ HeapMutate

Spec == Init /\ [][Next]_vars

\* ------------------------------------------------------- a worn medium
\* save and load on a medium one word of which stores wrongly: the header
\* word, or the first payload word
BadWords == {{<<FLASH_SAVED_CODE_START, "zero">>}, {<<FLASH_SAVED_CODE_START, "deaf">>},
             {<<rleStart, "deaf">>}}

InitFaulty ==
  /\ pages = {FLASH_SAVED_CODE_START, FLASH_SAVED_CODE_START + 8, FLASH_MAGIC_LOCATION + 4}
  /\ bad \in BadWords
  /\ heap \in Heaps
  /\ FlashBuild
  /\ Boot

SpecFaulty == InitFaulty /\ [][Next]_vars

\* ------------------------------------------------- Flash.write by itself
\* the command line calling Flash.write and Flash.erasePage on a medium that
\* starts erased
InitWrite ==
  /\ pages = {FLASH_SAVED_CODE_START, FLASH_MAGIC_LOCATION, FLASH_MAGIC_LOCATION + 4}
  /\ bad = {}
  /\ heap = Rep(0, HeapLen)
  /\ FlashBuild
  /\ Boot

NextWrite == jswrap_flash_write \/ jswrap_flash_erasePage

SpecWrite == InitWrite /\ [][NextWrite]_vars

\* ------------------------------------------------------- the codec by itself
\* rle_encode on a byte array, its callback appending to a stream, then
\* rle_decode pulling that stream back (what the file build does with
\* espruino.state: fwrite in the write callback, fread in the read callback)

\* longest run of equal bytes in an input
MaxRun == 520
\* longest input that is free of any pattern
MaxShort == 4
CodecBytes == {0, 1, ErasedByte}
ShortInputs == UNION {[1..k -> CodecBytes] : k \in 0..MaxShort}
\* a run of 0 or 255, whose counts 0 and 255 look like data, with at most one
\* other byte before it and one after it
Context == {<<>>, <<1>>}
RunInputs ==
  {p \o Rep(b, n) \o q : p \in Context, q \in Context, b \in {0, ErasedByte}, n \in 0..MaxRun}
\* five times 0x41, then 0x42
ExampleHeap == <<65, 65, 65, 65, 65, 66>>
CodecInputs == ShortInputs \cup RunInputs \cup {ExampleHeap}

\* jsfLoadFromFlash_readcb of the file build: the next byte, -1 at the end
file_readcb(bytes, pos) == IF pos < Len(bytes) THEN bytes[pos + 1] ELSE -1

flashState == <<pages, flash, pageStart, pageLength, cbData, endOfData, cbLoad,
                outPos, report, history, reads, saveLog, env>>

InitCodec ==
  /\ pages = {FLASH_SAVED_CODE_START, FLASH_MAGIC_LOCATION + 4}
  /\ flash = [a \in 0..(MemSize - 1) |-> ErasedByte]
  /\ heap \in CodecInputs
  /\ pc = "encode"
  /\ pageStart = 0
  /\ pageLength = 0
  /\ cbData = [c0 |-> 0, c1 |-> 0, c2 |-> ToWord(0)]
  /\ endOfData = 0
  /\ dataPos = 0
  /\ lastCh = -1
  /\ cbLoad = [c0 |-> ToWord(0), c1 |-> 0]
  /\ outPos = 0
  /\ report = "none"
  /\ snapshot = NoSnapshot
  /\ saveErrors = -1
  /\ markerBefore = ErasedWord
  /\ reads = {}
  /\ bad = {}
  /\ call = NoCall
  /\ FlashBuild
  /\ eraseLog = <<>>
  /\ pushed = <<>>
  /\ writeLog = <<>>
  /\ stream = <<>>
  /\ pullPos = 0
  /\ decoded = <<>>

\* one iteration of rle_encode, the callback appending each byte
EncodeStep ==
  /\ pc = "encode"
  /\ dataPos < Len(heap)
  /\ LET it == rle_encode_iter(heap, dataPos, lastCh)
     IN /\ stream' = stream \o it.emit
        /\ dataPos' = it.pos
        /\ lastCh' = it.lastCh
  /\ UNCHANGED <<flashState, heap, pc, pullPos, decoded>>

\* rle_encode returns; rle_decode starts on the stream
EncodeDone ==
  /\ pc = "encode"
  /\ dataPos = Len(heap)
  /\ pc' = "decode"
  /\ lastCh' = -256
  /\ UNCHANGED <<flashState, heap, dataPos, codec>>

\* one iteration of rle_decode
DecodeStep ==
  /\ pc = "decode"
  /\ file_readcb(stream, pullPos) >= 0
  /\ LET ch == file_readcb(stream, pullPos)
         it == rle_decode_iter(ch, file_readcb(stream, pullPos + 1), lastCh)
         asked == pullPos + it.pulls
     IN /\ decoded' = decoded \o it.out
        /\ lastCh' = it.lastCh
        /\ pullPos' = IF asked > Len(stream) THEN Len(stream) ELSE asked
  /\ UNCHANGED <<flashState, heap, pc, dataPos, stream>>

\* the callback answers -1: rle_decode returns
DecodeDone ==
  /\ pc = "decode"
  /\ file_readcb(stream, pullPos) < 0
  /\ pc' = "decoded"
  /\ UNCHANGED <<flashState, heap, dataPos, lastCh, codec>>

NextCodec == EncodeStep \/ EncodeDone \/ DecodeStep \/ DecodeDone

SpecCodec == InitCodec /\ [][NextCodec]_vars

\* ------------------------------------------------------------ the file build
\* jsfSaveToFlash, jsfLoadFromFlash and jsfFlashContainsCode as built for
\* LINUX: espruino.state holds the number of JsVars and the encoded heap

\* sizeof(JsVar), in bytes
RecordSize == 2
\* largest heap, in JsVars
MaxRecords == 2
FileHeaps == UNION {[1..(r * RecordSize) -> HeapBytes] : r \in 1..MaxRecords}

\* the unsigned int four bytes hold, least significant first
FromWord(w) == w[1] + 256 * w[2] + 65536 * w[3] + 16777216 * w[4]

\* every byte rle_decode stores when its callback hands out bytes, then -1
RECURSIVE rle_decode_from(_, _, _)
rle_decode_from(bytes, pos, last) ==
  LET ch == file_readcb(bytes, pos)
  IN IF ch < 0 THEN <<>>
     ELSE LET it == rle_decode_iter(ch, file_readcb(bytes, pos + 1), last)
          IN it.out \o rle_decode_from(bytes, pos + it.pulls, it.lastCh)

rle_decode(bytes) == rle_decode_from(bytes, 0, -256)

\* jsfFlashContainsCode, file build: fopen(..., "rb") succeeds
jsfFlashContainsCode_file == file.exists /\ fileOK

\* jsvSetMemoryTotal(n): the heap has n JsVars, those it had keep their bytes
Resized(h, n) == [i \in 1..(n * RecordSize) |-> IF i <= Len(h) THEN h[i] ELSE 0]

\* jsfSaveToFlash, file build
jsfSaveToFlash_file ==
  /\ pc = "idle"
  /\ IF fileOK
     THEN /\ file' = [exists |-> TRUE, bytes |-> ToWord(memTotal) \o rle_encode(heap)]
          /\ snapshot' = heap
          /\ report' = "done"
     ELSE /\ report' = "openfailed"
          /\ UNCHANGED <<file, snapshot>>
  /\ UNCHANGED <<bad, call, fileOK, memTotal, saveLog, codec, pages, flash, heap, pc,
                 saveLocals, lastCh, loadLocals, saveErrors, markerBefore>>

\* mutant: the load leaves the number of JsVars as it is
jsfLoadFromFlash_file_nocount ==
  /\ pc = "idle"
  /\ IF jsfFlashContainsCode_file
     THEN LET out == rle_decode(SubSeq(file.bytes, 5, Len(file.bytes)))
          IN /\ heap' = Store(heap, 0, out)
             /\ outPos' = Len(out)
             /\ report' = "loaded"
             /\ UNCHANGED memTotal
     ELSE /\ report' = "openfailed"
          /\ UNCHANGED <<memTotal, heap, outPos>>
  /\ UNCHANGED <<bad, call, file, fileOK, saveLog, codec, pages, flash, pc, saveLocals,
                 lastCh, cbLoad, reads, history>>

\* jsfLoadFromFlash, file build
jsfLoadFromFlash_file ==
  /\ pc = "idle"
  /\ IF jsfFlashContainsCode_file
     THEN LET jsVarCount == FromWord(SubSeq(file.bytes, 1, 4))
              out == rle_decode(SubSeq(file.bytes, 5, Len(file.bytes)))
          IN /\ memTotal' = jsVarCount
             /\ heap' = Store(Resized(heap, jsVarCount), 0, out)
             /\ outPos' = Len(out)
             /\ report' = "loaded"
     ELSE /\ report' = "openfailed"
          /\ UNCHANGED <<memTotal, heap, outPos>>
  /\ UNCHANGED <<bad, call, file, fileOK, saveLog, codec, pages, flash, pc, saveLocals,
                 lastCh, cbLoad, reads, history>>

\* the directory stops, or starts, letting espruino.state be opened
FileAccess ==
  /\ pc = "idle"
  /\ fileOK' = ~fileOK
  /\ UNCHANGED <<bad, call, file, memTotal, saveLog, codec, pages, flash, heap, pc,
                 saveLocals, lastCh, loadLocals, report, history>>

\* the interpreter goes on: the heap changes, and with it its size
FileHeapMutate ==
  /\ pc = "idle"
  /\ \E h \in FileHeaps :
       /\ h # heap
       /\ heap' = h
       /\ memTotal' = Len(h) \div RecordSize
  /\ report' = "none"
  /\ outPos' = 0
  /\ UNCHANGED <<bad, call, file, fileOK, saveLog, codec, pages, flash, pc, saveLocals,
                 lastCh, cbLoad, reads, history>>

InitFile ==
  /\ pages = {FLASH_SAVED_CODE_START, FLASH_MAGIC_LOCATION + 4}
  /\ bad = {}
  /\ heap \in FileHeaps
  /\ memTotal = Len(heap) \div RecordSize
  /\ file = NoFile
  /\ fileOK = TRUE
  /\ Boot

NextFile ==
  \/ jsfSaveToFlash_file
  \/ jsfLoadFromFlash_file
  \/ FileAccess
  \/ FileHeapMutate

SpecFile == InitFile /\ [][NextFile]_vars

\* ================================================================== claims
\* bytes the medium holds from address a up to address b (exclusive)
FlashBytes(a, b) == [i \in 1..(b - a) |-> flash[a + i - 1]]
\* payload bytes that fit between the header word and the magic word
Capacity == FLASH_MAGIC_LOCATION - FLASH_SAVED_CODE_START - 4

\* C1: a load that follows a save which did not take the overflow branch ends
\* with the heap equal, byte for byte, to the heap that was saved, after
\* writing exactly HeapLen bytes from the heap base
C1_SaveLoadRoundTrip ==
  (report = "loaded" /\ snapshot # NoSnapshot) => (heap = snapshot /\ outPos = HeapLen)

C1_Witness ==
  /\ report = "loaded"
  /\ snapshot # NoSnapshot
  /\ heap = snapshot
  /\ outPos = HeapLen
  /\ Cardinality(pages) > 2

\* the medium holds a complete snapshot of some heap: header and payload
HoldsSnapshot ==
  \E h \in Heaps :
    LET enc == rle_encode(h)
    IN /\ rleStart + Len(enc) <= FLASH_MAGIC_LOCATION
       /\ ReadWord(flash, FLASH_SAVED_CODE_START) = ToWord(rleStart + Len(enc))
       /\ FlashBytes(rleStart, rleStart + Len(enc)) = enc

\* C3 (as claimed): whenever the presence check would answer true, the medium
\* holds a complete snapshot
C3_MarkerImpliesSnapshot == jsfFlashContainsCode(flash) => HoldsSnapshot

\* C4 (as claimed): a payload of exactly Capacity bytes does not take the
\* overflow branch, a payload one byte larger does
C4_CapacityBoundary ==
  pc = "flushed" =>
    /\ (endOfData - rleStart = Capacity => ~(cbData.c1 >= cbData.c0))
    /\ (endOfData - rleStart = Capacity + 1 => cbData.c1 >= cbData.c0)

\* C5 (as claimed): when a save ends in the overflow branch the magic word
\* holds what it held before the save started
C5_MarkerUntouched ==
  report = "toobig" => ReadWord(flash, FLASH_MAGIC_LOCATION) = markerBefore

\* the page holding the magic word also holds bytes below it
MagicSharesPage == jshFlashGetPage(pages, FLASH_MAGIC_LOCATION).start < FLASH_MAGIC_LOCATION

\* C5 (amended): when a save ends in the overflow branch the magic word is
\* erased if its page reaches below FLASH_MAGIC_LOCATION and holds its old
\* value otherwise; the save never programs it
C5_MarkerErasedOrKept ==
  report = "toobig" =>
    ReadWord(flash, FLASH_MAGIC_LOCATION) =
      (IF MagicSharesPage THEN ErasedWord ELSE markerBefore)

C5_Witness ==
  /\ report = "toobig"
  /\ markerBefore = FLASH_MAGIC
  /\ ReadWord(flash, FLASH_MAGIC_LOCATION) = ErasedWord

\* C6 (as claimed): a load writes only inside the heap, and a load that
\* returns has decoded exactly HeapLen bytes
C6_LoadInBounds ==
  /\ outPos <= HeapLen
  /\ report = "loaded" => outPos = HeapLen

\* C2: the bytes rle_encode pushes for S, followed by end of stream, make
\* rle_decode write exactly S
C2_CodecRoundTrip == pc = "decoded" => decoded = heap

C2_Witness ==
  /\ pc = "decoded"
  /\ decoded = heap
  /\ Len(heap) > 2 * MaxCount + 4
  /\ heap[1] = heap[Len(heap) - 1]

\* the input is a run of n >= 2 equal bytes with at most one other byte
\* before it and one after it
Lead == IF Len(heap) >= 2 /\ heap[1] # heap[2] THEN 1 ELSE 0
Trail == IF Len(heap) >= 2 /\ heap[Len(heap)] # heap[Len(heap) - 1] THEN 1 ELSE 0
RunLen == Len(heap) - Lead - Trail
EmbeddedRun ==
  /\ RunLen >= 2
  /\ \A i \in (Lead + 1)..(Lead + RunLen) : heap[i] = heap[Lead + 1]
\* bytes pushed for the run: every byte of the context costs one byte
RunBytes == Len(stream) - Lead - Trail

\* C9 (as claimed): a run of n >= 2 equal bytes is encoded in
\* 2 + ceil((n - 2) / 255) bytes
C9_RunBound ==
  (pc = "decoded" /\ EmbeddedRun) => RunBytes = 2 + ((RunLen - 2 + 254) \div 255)

\* C9 (amended): a run of n >= 2 equal bytes is encoded in
\* 1 + 2 * ceil((n - 1) / 256) bytes: the first byte, then a byte and its
\* count for every further 256 bytes or part of them
C9_RunCost ==
  (pc = "decoded" /\ EmbeddedRun) => RunBytes = 1 + 2 * ((RunLen - 1 + 255) \div 256)

C9_Witness ==
  /\ pc = "decoded"
  /\ EmbeddedRun
  /\ Lead = 1
  /\ Trail = 1
  /\ RunLen = 2 * (MaxCount + 1) + 2
  /\ RunBytes = 7

\* C7: when the magic word does not read back as FLASH_MAGIC, a load returns
\* at once: "No code in flash!", every heap byte as it was, and nothing read
\* from the medium but the magic word
C7_NoMarkerNoLoad ==
  [][(pc = "idle" /\ ~jsfFlashContainsCode(flash) /\ (LoadNoCode \/ LoadStart)) =>
       (heap' = heap /\ pc' = "idle" /\ report' = "nocode" /\ reads' = MagicAddrs)]_vars

\* a load found no magic word although bytes of a payload are in the region
C7_Witness ==
  /\ report = "nocode"
  /\ reads = MagicAddrs
  /\ ReadWord(flash, rleStart) # ErasedWord

\* C8: a save that does not overflow ends with a check pass that counts no
\* error: every byte re-encoded from the heap equals the byte read back from
\* rleStart on, and the magic word reads back as FLASH_MAGIC
C8_VerificationAgreement ==
  /\ report # "errors"
  /\ pc = "check" =>
       /\ cbData.c1 = 0
       /\ jsfFlashContainsCode(flash)
       /\ FlashBytes(rleStart, rleStart + Len(rle_encode(heap))) = rle_encode(heap)

C8_Witness ==
  /\ report = "done"
  /\ snapshot = heap
  /\ \E i \in 2..HeapLen : heap[i] # heap[1]

\* C10: after a save that did not overflow the presence check answers true;
\* after Flash.erasePage of the magic word's page it answers false
C10_PresenceCheck ==
  /\ report \in {"done", "errors"} => jsfFlashContainsCode(flash)
  /\ report = "erased" => ~jsfFlashContainsCode(flash)

\* the magic word was erased while header and payload of the snapshot stayed
C10_Witness ==
  /\ report = "erased"
  /\ snapshot # NoSnapshot
  /\ ~jsfFlashContainsCode(flash)
  /\ ReadWord(flash, FLASH_SAVED_CODE_START) = ToWord(rleStart + Len(rle_encode(snapshot)))
  /\ FlashBytes(rleStart, rleStart + Len(rle_encode(snapshot))) = rle_encode(snapshot)

\* no two neighbours of the input are equal
NoAdjacentEqual == \A i \in 1..(Len(heap) - 1) : heap[i] # heap[i + 1]

\* C11: an iteration of rle_encode hands a count byte to the callback only
\* for an input byte that equals the input byte before it, never for the
\* first byte; an input without equal neighbours is pushed byte for byte
C11_NoFalseEscape ==
  [][/\ (EncodeStep /\ Len(stream') = Len(stream) + 2) =>
          (dataPos > 0 /\ heap[dataPos + 1] = heap[dataPos])
     /\ (pc' = "decoded" /\ NoAdjacentEqual) => stream' = heap]_vars

C11_Witness ==
  /\ pc = "decoded"
  /\ NoAdjacentEqual
  /\ Len(heap) = MaxShort
  /\ heap[1] = ErasedByte
  /\ stream = heap

\* C12 (as claimed): five times 0x41 and one 0x42 are pushed as the five
\* bytes 0x41 0x41 0x03 0x42 0x00
C12_ExampleFiveBytes ==
  (pc = "decoded" /\ heap = ExampleHeap) => stream = <<65, 65, 3, 66, 0>>

\* C12 (amended): five times 0x41 and one 0x42 are pushed as the four bytes
\* 0x41 0x41 0x03 0x42; the single 0x42 gets no count byte
C12_ExampleFourBytes ==
  (pc = "decoded" /\ heap = ExampleHeap) => stream = <<65, 65, 3, 66>>

C12_Witness ==
  /\ pc = "decoded"
  /\ heap = ExampleHeap
  /\ decoded = ExampleHeap
  /\ Len(stream) = Len(ExampleHeap) - 2

\* the call meets what Flash.write asks of its arguments
CallAccepted ==
  /\ call.addr % 4 = 0
  /\ call.l % 4 = 0
  /\ call.l + StackMargin <= call.free

\* C13: Flash.write calls jshFlashWrite, once and with its own arguments,
\* when addr and the data length are multiples of 4 and the length plus 256
\* is within the free stack; in every other case it raises an error, calls
\* nothing and leaves every byte of the medium as it was
C13_WriteGuards ==
  [][jswrap_flash_write =>
       IF CallAccepted'
       THEN /\ report' = "written"
            /\ Len(writeLog') = 1
            /\ writeLog'[1].addr = call'.addr
            /\ Len(writeLog'[1].data) = call'.l
       ELSE /\ report' \in {"badalign", "nostack"}
            /\ writeLog' = <<>>
            /\ flash' = flash]_vars

\* a call refused for want of stack, on a medium earlier calls have written
C13_Witness ==
  /\ report = "nostack"
  /\ call.addr % 4 = 0
  /\ call.l = 4 * MaxWriteWords
  /\ writeLog = <<>>
  /\ ReadWord(flash, rleStart) # ErasedWord

\* positions of the header write, the magic write and the payload writes
\* in the log of the running save
HeaderAt == {i \in 1..Len(writeLog) : writeLog[i].addr = FLASH_SAVED_CODE_START}
MagicAt == {i \in 1..Len(writeLog) : writeLog[i].addr = FLASH_MAGIC_LOCATION}
PayloadAt == (1..Len(writeLog)) \ (HeaderAt \cup MagicAt)

\* C14: within one save the header is written after every payload word,
\* the word the three zero bytes push out included; the magic word is written
\* straight after the header and no write follows it
C14_WriteOrder ==
  /\ Cardinality(HeaderAt) <= 1
  /\ Cardinality(MagicAt) <= 1
  /\ \A h \in HeaderAt :
       /\ PayloadAt = 1..(h - 1)
       /\ h - 1 = (Len(rle_encode(heap)) + 3) \div 4
  /\ \A m \in MagicAt : HeaderAt = {m - 1} /\ m = Len(writeLog)
  /\ pc = "magic" => HeaderAt # {}
  /\ pc = "check" => MagicAt # {}

\* the save wrote a word that only the three zero bytes completed
C14_Witness ==
  /\ pc = "check"
  /\ Len(writeLog) = 3
  /\ endOfData % 4 # 0
  /\ Cardinality(pages) > 2

\* C15 (as claimed): every word a save writes goes to a page the same save
\* has erased, and no address is written twice in one save
C15_EraseBeforeWrite ==
  \A i \in 1..Len(writeLog) :
    /\ \E k \in 1..Len(eraseLog) :
         eraseLog[k] = jshFlashGetPage(pages, writeLog[i].addr).start
    /\ \A j \in 1..Len(writeLog) : writeLog[j].addr = writeLog[i].addr => j = i

\* the pages that hold a byte of [FLASH_SAVED_CODE_START, FLASH_MAGIC_LOCATION)
OverlapPages ==
  {p \in pages :
     /\ p < FLASH_MAGIC_LOCATION
     /\ p + jshFlashGetPage(pages, p).length > FLASH_SAVED_CODE_START}

\* C16: the erase loop erases pages that overlap the region only, in
\* ascending order and each once; when it ends it has erased all of them and
\* every byte of them reads erased
C16_ErasePhase ==
  /\ \A i \in 1..Len(eraseLog) : eraseLog[i] \in OverlapPages
  /\ \A i \in 1..(Len(eraseLog) - 1) : eraseLog[i] < eraseLog[i + 1]
  /\ pc \in {"write", "flushed", "magic", "check"} =>
       {eraseLog[i] : i \in 1..Len(eraseLog)} = OverlapPages
  /\ (pc = "write" /\ pushed = <<>>) =>
       /\ \A p \in OverlapPages :
            \A a \in p..(p + jshFlashGetPage(pages, p).length - 1) : flash[a] = ErasedByte
       /\ ~MagicSharesPage => ReadWord(flash, FLASH_MAGIC_LOCATION) = markerBefore

\* pages of different lengths were erased, the page of a magic word left
\* by an earlier save was not
C16_Witness ==
  /\ pc = "write"
  /\ Len(eraseLog) = 2
  /\ jshFlashGetPage(pages, eraseLog[1]).length # jshFlashGetPage(pages, eraseLog[2]).length
  /\ ~MagicSharesPage
  /\ markerBefore = FLASH_MAGIC

\* C17: a save whose cursor after the three zero bytes is at or above
\* FLASH_MAGIC_LOCATION returns from there with no further write and no check
\* pass; its writes went to words of [rleStart, FLASH_MAGIC_LOCATION) and the
\* write pass changed no byte outside them
C17_OverflowAbort ==
  [][/\ (pc = "flushed" /\ cbData.c1 >= cbData.c0) =>
          (flash' = flash /\ pc' = "idle" /\ report' = "toobig")
     /\ pc = "write" =>
          \A a \in DOMAIN flash :
            flash'[a] # flash[a] => (a >= rleStart /\ a < FLASH_MAGIC_LOCATION)
     /\ (pc' = "flushed" /\ cbData'.c1 >= cbData'.c0) =>
          \A i \in 1..Len(writeLog') :
            /\ writeLog'[i].addr >= rleStart
            /\ writeLog'[i].addr + 4 <= FLASH_MAGIC_LOCATION]_vars

\* after an overflow: payload in the region, the header still erased
C17_Witness ==
  /\ report = "toobig"
  /\ ReadWord(flash, FLASH_SAVED_CODE_START) = ErasedWord
  /\ ReadWord(flash, rleStart) # ErasedWord
  /\ ReadWord(flash, FLASH_MAGIC_LOCATION - 4) # ErasedWord

\* C18 (as claimed): on any medium, a load that follows a save whose check
\* pass counted no error writes the heap, and nothing else, as it was when
\* saved
C18_VerifiedIsGood ==
  (report \in {"loaded", "fault"} /\ saveErrors = 0) =>
    (heap = snapshot /\ outPos = HeapLen)

HeaderAddrs == {FLASH_SAVED_CODE_START + i : i \in 0..3}

\* C19: once a save has written the header, the header word holds
\* rleStart plus the number of bytes rle_encode pushed, the three zero bytes
\* not counted; the load after it reads the magic word, the header and
\* exactly the bytes from rleStart up to that address
C19_HeaderIsEndOfData ==
  /\ pc \in {"magic", "check"} =>
       /\ Len(pushed) = Len(rle_encode(heap)) + 3
       /\ ReadWord(flash, FLASH_SAVED_CODE_START) = ToWord(rleStart + Len(rle_encode(heap)))
  /\ (report = "loaded" /\ snapshot # NoSnapshot) =>
       reads = MagicAddrs \cup HeaderAddrs \cup
               {rleStart + i - 1 : i \in 1..Len(rle_encode(snapshot))}

\* the load stopped in front of a zero byte the flush had stored
C19_Witness ==
  /\ report = "loaded"
  /\ snapshot # NoSnapshot
  /\ Len(rle_encode(snapshot)) = 3
  /\ flash[rleStart + 3] = 0
  /\ (rleStart + 3) \notin reads

\* calls of the write callback, numbered from 1, whose cursor before the
\* increment has its low two bits set
FourthCalls == {i \in 1..Len(pushed) : (rleStart + i - 1) % 4 = 3}
\* those of them whose cursor is below the end address
FittingCalls == {i \in FourthCalls : rleStart + i - 1 < FLASH_MAGIC_LOCATION}
\* the write pass logged, for each call of S and no other, the write of the
\* last four bytes to the cursor rounded down
WritesAre(S) ==
  /\ Len(writeLog) = Cardinality(S)
  /\ \A i \in S :
       \E k \in 1..Len(writeLog) :
         /\ writeLog[k].addr = rleStart + i - 4
         /\ writeLog[k].data = <<pushed[i - 3], pushed[i - 2], pushed[i - 1], pushed[i]>>

\* C20 (as claimed): the cursor advances by one per call of the write
\* callback and a word is written on exactly the calls whose cursor has its
\* low two bits set
C20_WordEveryFourth ==
  pc \in {"write", "flushed"} =>
    /\ cbData.c1 = rleStart + Len(pushed)
    /\ WritesAre(FourthCalls)

\* C20 (amended): the cursor advances by one per call of the write callback
\* and a word is written on exactly the calls whose cursor has its low two
\* bits set and is below FLASH_MAGIC_LOCATION; the word goes to the cursor
\* rounded down and holds the last four bytes, the oldest lowest
C20_WordEveryFourthThatFits ==
  pc \in {"write", "flushed"} =>
    /\ cbData.c1 = rleStart + Len(pushed)
    /\ WritesAre(FittingCalls)

\* the cursor went past a fourth call above the end address
C20_Witness ==
  /\ pc = "flushed"
  /\ FourthCalls # FittingCalls
  /\ Len(writeLog) = PayloadWords
  /\ \E k \in 1..Len(writeLog) : writeLog[k].data[1] # writeLog[k].data[4]

\* C21: whatever the heap encodes to, every word the write callback writes
\* lies inside [rleStart, FLASH_MAGIC_LOCATION), and the write pass changes no
\* byte from FLASH_MAGIC_LOCATION on; with the cursor at or above
\* FLASH_MAGIC_LOCATION the callback only advances the cursor, by one per byte
C21_PayloadBelowMarker ==
  [][pc = "write" =>
       /\ \A i \in 1..Len(writeLog') :
            /\ writeLog'[i].addr >= rleStart
            /\ writeLog'[i].addr + 3 < FLASH_MAGIC_LOCATION
       /\ \A a \in DOMAIN flash : a >= FLASH_MAGIC_LOCATION => flash'[a] = flash[a]
       /\ cbData.c1 >= FLASH_MAGIC_LOCATION =>
            /\ flash' = flash
            /\ writeLog' = writeLog
            /\ cbData'.c2 = cbData.c2
            /\ cbData'.c1 = cbData.c1 + Len(pushed') - Len(pushed)]_vars

\* the cursor ran past the magic word an earlier save had written
C21_Witness ==
  /\ pc = "flushed"
  /\ cbData.c1 > FLASH_MAGIC_LOCATION + 3
  /\ Len(writeLog) = PayloadWords
  /\ markerBefore = FLASH_MAGIC
  /\ ReadWord(flash, FLASH_MAGIC_LOCATION) = FLASH_MAGIC

\* a step of the save or load that is running
Running == pc # "idle" /\ Next

C23_FileBackend ==
  [][/\ jsfSaveToFlash_file =>
          /\ heap' = heap /\ memTotal' = memTotal
          /\ IF fileOK
             THEN /\ file'.bytes = ToWord(Len(heap) \div RecordSize) \o rle_encode(heap)
                  /\ report' = "done"
                  /\ jsfFlashContainsCode_file'
             ELSE report' = "openfailed" /\ file' = file
     /\ jsfLoadFromFlash_file =>
          IF file.exists /\ fileOK
          THEN /\ memTotal' = Len(snapshot) \div RecordSize
               /\ heap' = snapshot
               /\ outPos' = Len(snapshot)
               /\ report' = "loaded"
          ELSE report' = "openfailed" /\ heap' = heap /\ memTotal' = memTotal]_vars

\* a load gave back a heap of more JsVars than the file has payload bytes
C23_Witness ==
  /\ report = "loaded"
  /\ heap = snapshot
  /\ memTotal = MaxRecords
  /\ Len(file.bytes) < 4 + Len(heap)
  /\ \E i \in 1..Len(heap) : heap[i] = ErasedByte

====
